---- MODULE Spec2Model ----
(***************************************************************************)
(* A model of the fuzzy full-text retrieval engine: the BK-tree            *)
(* (FuzzySearchEngine/bktree.py), the distance function                    *)
(* (SearchEngine/helper.py), the indexer (SearchEngine/index_files.py) and *)
(* the query engine (FuzzySearchEngine/fuzzy_search.py).                   *)
(*                                                                         *)
(* Words are sequences of one-character strings.  Python's None is the     *)
(* empty tuple.  A BK-tree node is the pair <<item, children>> of the      *)
(* source; a Python dict is a sequence of <<key, value>> pairs in          *)
(* insertion order, which is the order dict iteration follows.             *)
(***************************************************************************)
EXTENDS Integers, Sequences, FiniteSets, TLC

(***************************************************************************)
(* Bounds and input sets                                                   *)
(***************************************************************************)
MaxAdds == 3

MaxFiles == 3

None == <<>>

Vocabulary ==
    { <<"a">>, <<"b","b","b">>, <<"a","b","b">>,
      <<"a","b","b","b">>, <<"a","b","b","b","b">> }

Probes ==
    { <<"a","b","b">>, <<"a","b","b","b">>, <<"a","b","b","b","b">>,
      <<"b","a","b","a">> }

Tolerances == {0, 20, 60}

Ks == {-1, 0, 1, 2}

(***************************************************************************)
(* helper.py: fuzzy_ratio_distance                                         *)
(***************************************************************************)
Max(a, b) == IF a >= b THEN a ELSE b

Min(a, b) == IF a <= b THEN a ELSE b

\* Length of the longest common subsequence: rapidfuzz's Indel distance
\* between s1 and s2 is Len(s1) + Len(s2) - 2 * LCS(s1, s2).
RECURSIVE LCS(_, _)
LCS(s1, s2) ==
    IF s1 = <<>> \/ s2 = <<>> THEN 0
    ELSE IF s1[Len(s1)] = s2[Len(s2)]
         THEN 1 + LCS(SubSeq(s1, 1, Len(s1) - 1), SubSeq(s2, 1, Len(s2) - 1))
         ELSE Max(LCS(SubSeq(s1, 1, Len(s1) - 1), s2),
                  LCS(s1, SubSeq(s2, 1, Len(s2) - 1)))

\* int(fuzz.ratio(s1, s2)).  fuzz.ratio is the double
\* (1.0 - dist / maximum) * 100 with maximum = Len(s1) + Len(s2) and dist
\* the Indel distance maximum - 2 * lcs; int() truncates it.  For
\* maximum < 20 the truncated double equals the exact floor of
\* 100 * (maximum - dist) / maximum except at dist = 8, maximum = 10, where
\* the double is 19.999999999999996.
TruncatedRatio(maximum, lcs) ==
    IF maximum = 0 THEN 100
    ELSE IF maximum = 10 /\ lcs = 1 THEN 19
    ELSE (200 * lcs) \div maximum

IntFuzzRatio(s1, s2) == TruncatedRatio(Len(s1) + Len(s2), LCS(s1, s2))

fuzzy_ratio_distance(s1, s2) == 100 - IntFuzzRatio(s1, s2)

(***************************************************************************)
(* Python dicts as insertion-ordered sequences of <<key, value>> pairs     *)
(***************************************************************************)
DictKeys(dict) == { dict[i][1] : i \in 1..Len(dict) }

DictHas(dict, key) == key \in DictKeys(dict)

\* dict.get(key): the value under key, None when the key is absent.
DictGet(dict, key) ==
    IF DictHas(dict, key)
    THEN dict[CHOOSE i \in 1..Len(dict) : dict[i][1] = key][2]
    ELSE None

\* dict[key] = value: replaces in place, or appends a new key at the end.
DictSet(dict, key, value) ==
    IF DictHas(dict, key)
    THEN [i \in 1..Len(dict) |->
            IF dict[i][1] = key THEN <<key, value>> ELSE dict[i]]
    ELSE Append(dict, <<key, value>>)

(***************************************************************************)
(* bktree.py: BKTree                                                       *)
(***************************************************************************)
RECURSIVE AddAt(_, _)

\* One iteration of the loop of add without the test for distance 0.
AddAtDistanceNoZeroCheck(node, item, distance) ==
    IF DictGet(node[2], distance) = None
    THEN <<node[1], DictSet(node[2], distance, <<item, <<>>>>)>>
    ELSE <<node[1], DictSet(node[2], distance,
                            AddAt(DictGet(node[2], distance), item))>>

\* One iteration of the loop of add at node = (parent, children), with
\* distance = distance_func(item, parent): the node after the insertion.
AddAtDistance(node, item, distance) ==
    IF distance = 0 THEN node
    ELSE IF DictGet(node[2], distance) = None
    THEN <<node[1], DictSet(node[2], distance, <<item, <<>>>>)>>
    ELSE <<node[1], DictSet(node[2], distance,
                            AddAt(DictGet(node[2], distance), item))>>

\* The loop of add from node downwards.
AddAt(node, item) ==
    AddAtDistance(node, item, fuzzy_ratio_distance(item, node[1]))

\* BKTree.add: the tree after add(item).
BKAdd(t, item) ==
    IF t = None THEN <<item, <<>>>> ELSE AddAt(t, item)

\* The words stored in the nodes of a tree, one entry per node, in
\* pre-order.
RECURSIVE NodeItems(_)
RECURSIVE ChildrenItems(_)
NodeItems(node) ==
    IF node = None THEN <<>> ELSE <<node[1]>> \o ChildrenItems(node[2])

ChildrenItems(children) ==
    IF children = <<>> THEN <<>>
    ELSE NodeItems(Head(children)[2]) \o ChildrenItems(Tail(children))

\* found.sort(key=_getitem0): a stable sort by the first component.
RECURSIVE InsertByKey0(_, _)
InsertByKey0(sorted, e) ==
    IF sorted = <<>> THEN <<e>>
    ELSE IF sorted[Len(sorted)][1] <= e[1] THEN Append(sorted, e)
    ELSE Append(InsertByKey0(SubSeq(sorted, 1, Len(sorted) - 1), e),
                sorted[Len(sorted)])

RECURSIVE SortByKey0(_)
SortByKey0(list) ==
    IF list = <<>> THEN <<>>
    ELSE InsertByKey0(SortByKey0(SubSeq(list, 1, Len(list) - 1)),
                      list[Len(list)])

\* The children whose key lies in [lower, upper], in dict order.
RECURSIVE ChildrenInRange(_, _, _)
ChildrenInRange(children, lower, upper) ==
    IF children = <<>> THEN <<>>
    ELSE (IF lower <= Head(children)[1] /\ Head(children)[1] <= upper
          THEN <<Head(children)[2]>> ELSE <<>>)
         \o ChildrenInRange(Tail(children), lower, upper)

RECURSIVE FindLoop(_, _, _, _, _, _)

\* One iteration of the while loop of find on the candidate at the head
\* of the deque, with distance = distance_func(candidate, item).
FindStep(candidates, found, count, item, tolerance, k, distance) ==
    IF distance <= tolerance
    THEN (IF count + 1 = k
          THEN Append(found, <<distance, Head(candidates)[1]>>)
          ELSE FindLoop(Tail(candidates)
                          \o ChildrenInRange(Head(candidates)[2],
                                             distance - tolerance,
                                             distance + tolerance),
                        Append(found, <<distance, Head(candidates)[1]>>),
                        count + 1, item, tolerance, k))
    ELSE (IF count = k THEN found
          ELSE FindLoop(Tail(candidates)
                          \o ChildrenInRange(Head(candidates)[2],
                                             distance - tolerance,
                                             distance + tolerance),
                        found, count, item, tolerance, k))

\* The while loop of find: candidates is the deque, found the list of
\* emissions, count the number of emissions from the tree.
FindLoop(candidates, found, count, item, tolerance, k) ==
    IF candidates = <<>> THEN found
    ELSE FindStep(candidates, found, count, item, tolerance, k,
                  fuzzy_ratio_distance(Head(candidates)[1], item))

\* find without the short-probe return.
BKFindNoShortProbe(t, item, tolerance, k) ==
    IF t = None THEN <<>>
    ELSE SortByKey0(FindLoop(<<t>>, << <<0, item>> >>, 0, item, tolerance, k))

\* BKTree.find(item, tolerance, k).
BKFind(t, item, tolerance, k) ==
    IF t = None THEN <<>>
    ELSE IF Len(item) <= 3 THEN << <<0, item>> >>
    ELSE SortByKey0(FindLoop(<<t>>, << <<0, item>> >>, 0, item, tolerance, k))

\* BKTree.to_dict(node): {'item': item, 'children': {distance: to_dict(child)}}.
RECURSIVE to_dict(_)
RECURSIVE to_dict_children(_)
to_dict(node) ==
    IF node = None THEN None
    ELSE [item |-> node[1], children |-> to_dict_children(node[2])]

to_dict_children(children) ==
    [i \in 1..Len(children) |-> <<children[i][1], to_dict(children[i][2])>>]

Digits == <<"0", "1", "2", "3", "4", "5", "6", "7", "8", "9">>

\* str(n) for a non-negative integer: its decimal digits.
RECURSIVE Str(_)
Str(n) ==
    IF n < 10 THEN <<Digits[n + 1]>>
    ELSE Append(Str(n \div 10), Digits[(n % 10) + 1])

DigitValue(c) == (CHOOSE i \in 1..10 : Digits[i] = c) - 1

\* int(s) for a string of decimal digits.
RECURSIVE PyInt(_)
PyInt(s) ==
    IF Len(s) = 1 THEN DigitValue(s[1])
    ELSE 10 * PyInt(SubSeq(s, 1, Len(s) - 1)) + DigitValue(s[Len(s)])

\* json.dump(data): None becomes null; a dict becomes an object, whose
\* keys are strings: an integer key is written as str(key).
RECURSIVE JsonDump(_)
JsonDump(data) ==
    IF data = None THEN [json |-> "null"]
    ELSE [json |-> "object",
          item |-> data.item,
          children |-> [i \in 1..Len(data.children) |->
                          <<Str(data.children[i][1]),
                            JsonDump(data.children[i][2])>>]]

\* json.load(f): null becomes None; an object becomes a dict with the
\* string keys of the text.
RECURSIVE JsonLoad(_)
JsonLoad(text) ==
    IF text.json = "null" THEN None
    ELSE [item |-> text.item,
          children |-> [i \in 1..Len(text.children) |->
                          <<text.children[i][1],
                            JsonLoad(text.children[i][2])>>]]

\* from_dict that does not descend below the children of a node.
from_dict_flat(data) ==
    IF data = None THEN None
    ELSE <<data.item,
           [i \in 1..Len(data.children) |->
              <<PyInt(data.children[i][1]), <<data.children[i][2].item, <<>>>>>>]>>

\* BKTree.from_dict(data): (item, {int(distance): from_dict(child)}).
RECURSIVE from_dict(_)
from_dict(data) ==
    IF data = None THEN None
    ELSE <<data.item,
           [i \in 1..Len(data.children) |->
              <<PyInt(data.children[i][1]), from_dict(data.children[i][2])>>]>>

(***************************************************************************)
(* index_files.py: index_files                                             *)
(***************************************************************************)
\* One file of the directory: its basename and its content, both strings
\* (sequences of characters).
File(name, text) == [name |-> name, text |-> text]

\* f_1_x.txt: "ena dva dva"
FileEna == File(<<"f","_","1","_","x",".","t","x","t">>,
                <<"e","n","a"," ","d","v","a"," ","d","v","a">>)

\* f_2_x.txt: "dva tri"
FileDva == File(<<"f","_","2","_","x",".","t","x","t">>,
                <<"d","v","a"," ","t","r","i">>)

\* g_2_y.txt: "Tri, in  ena" (a second file numbered 2)
FileTri == File(<<"g","_","2","_","y",".","t","x","t">>,
                <<"T","r","i",","," ","i","n"," "," ","e","n","a">>)

\* f_3_x.txt: "trii tri in"
FileTrii == File(<<"f","_","3","_","x",".","t","x","t">>,
                 <<"t","r","i","i"," ","t","r","i"," ","i","n">>)

\* readme.txt: "ena" (a name without underscore)
FileReadme == File(<<"r","e","a","d","m","e",".","t","x","t">>,
                   <<"e","n","a">>)

\* f_x_3.txt: "dva" (a second field that is not a number)
FileX == File(<<"f","_","x","_","3",".","t","x","t">>,
              <<"d","v","a">>)

\* f_1013_x.txt: "tri" (a document number beyond the documents list)
FileBig == File(<<"f","_","1","0","1","3","_","x",".","t","x","t">>,
                <<"t","r","i">>)

\* s_1_a.txt: "kava caj mleko" with c-caron, document 0 of scenario S2
FileKava == File(<<"s","_","1","_","a",".","t","x","t">>,
                 <<"k","a","v","a"," ","c-caron","a","j"," ",
                   "m","l","e","k","o">>)

\* s_2_b.txt: "voda sok", document 1 of scenario S2
FileVoda == File(<<"s","_","2","_","b",".","t","x","t">>,
                 <<"v","o","d","a"," ","s","o","k">>)

SampleFiles ==
    {FileEna, FileDva, FileTri, FileTrii, FileReadme, FileX, FileBig}

\* The stop-word dicts run_indexing can build: none, or {"in"}.
StopWordSets == { {}, {<<"i","n">>} }

\* slovenian_alphabet; a letter with a diacritic is written by its name.
slovenian_alphabet ==
    {"a","b","c","c-caron","c-acute","d","d-stroke","e","e-acute","f","g","h","i","j","k","l","m",
     "n","o","o-acute","p","q","r","s","s-caron","t","u","v","w","x","y","z","z-caron"," "}

UpperCase ==
    <<"A","B","C","C-caron","C-acute","D","D-stroke","E","E-acute","F","G","H","I","J","K","L","M",
      "N","O","O-acute","P","Q","R","S","S-caron","T","U","V","W","X","Y","Z","Z-caron">>

LowerCase ==
    <<"a","b","c","c-caron","c-acute","d","d-stroke","e","e-acute","f","g","h","i","j","k","l","m",
      "n","o","o-acute","p","q","r","s","s-caron","t","u","v","w","x","y","z","z-caron">>

\* str.lower() on the letters of the alphabet; other characters are kept.
LowerChar(c) ==
    IF \E i \in 1..Len(UpperCase) : UpperCase[i] = c
    THEN LowerCase[CHOOSE i \in 1..Len(UpperCase) : UpperCase[i] = c]
    ELSE c

Lower(text) == [i \in 1..Len(text) |-> LowerChar(text[i])]

\* ''.join([c for c in text if c in slovenian_alphabet])
RECURSIVE FilterAlphabet(_)
FilterAlphabet(text) ==
    IF text = <<>> THEN <<>>
    ELSE (IF Head(text) \in slovenian_alphabet THEN <<Head(text)>> ELSE <<>>)
         \o FilterAlphabet(Tail(text))

\* str.split(sep): the fields between the separators, empty ones kept.
RECURSIVE SplitOn(_, _, _)
SplitOn(text, sep, field) ==
    IF text = <<>> THEN <<field>>
    ELSE IF Head(text) = sep
         THEN <<field>> \o SplitOn(Tail(text), sep, <<>>)
         ELSE SplitOn(Tail(text), sep, Append(field, Head(text)))

RECURSIVE DropEmpty(_)
DropEmpty(fields) ==
    IF fields = <<>> THEN <<>>
    ELSE (IF Head(fields) = <<>> THEN <<>> ELSE <<Head(fields)>>)
         \o DropEmpty(Tail(fields))

\* str.split(): the only whitespace the alphabet filter leaves is the
\* space; runs of spaces separate, empty fields are dropped.
SplitWhitespace(text) == DropEmpty(SplitOn(text, " ", <<>>))

\* Line 63-64: the words of a file.
FileWords(f) == SplitWhitespace(FilterAlphabet(Lower(f.text)))

IsDigits(s) ==
    /\ s # <<>>
    /\ \A i \in 1..Len(s) : \E j \in 1..10 : Digits[j] = s[i]

NameFields(f) == SplitOn(f.name, "_", <<>>)

\* Line 65 raises IndexError when the name has no second field and
\* ValueError when int() rejects it (int() is modelled on digit strings).
NameRaises(f) ==
    IF Len(NameFields(f)) < 2 THEN TRUE ELSE ~IsDigits(NameFields(f)[2])

\* doc = int(str(transcription.name).split('_')[1]) - 1
DocOf(f) == PyInt(NameFields(f)[2]) - 1

\* documents = [[]] * 1012
DocumentsSize == 1012

\* Line 79 raises IndexError when doc is outside the documents list.
SlotRaises(f) ==
    IF DocOf(f) >= DocumentsSize THEN TRUE ELSE DocOf(f) < 0 - DocumentsSize

\* Lines 67-71: the per-document counts, a dict in order of first
\* occurrence, stop-words left out.
RECURSIVE EntityCounts(_, _, _)
EntityCounts(words, stops, counts) ==
    IF words = <<>> THEN counts
    ELSE IF Head(words) \in stops
         THEN EntityCounts(Tail(words), stops, counts)
         ELSE EntityCounts(Tail(words), stops,
                 DictSet(counts, Head(words),
                         IF DictHas(counts, Head(words))
                         THEN DictGet(counts, Head(words)) + 1 ELSE 1))

\* sorted(entity_counts.items(), key=count, reverse=True): stable, so
\* words of equal count stay in order of first occurrence.
RECURSIVE InsertByCountDesc(_, _)
InsertByCountDesc(sorted, e) ==
    IF sorted = <<>> THEN <<e>>
    ELSE IF sorted[Len(sorted)][2] >= e[2] THEN Append(sorted, e)
    ELSE Append(InsertByCountDesc(SubSeq(sorted, 1, Len(sorted) - 1), e),
                sorted[Len(sorted)])

RECURSIVE SortByCountDesc(_)
SortByCountDesc(items) ==
    IF items = <<>> THEN <<>>
    ELSE InsertByCountDesc(SortByCountDesc(SubSeq(items, 1, Len(items) - 1)),
                           items[Len(items)])

\* The index under construction: the locals of index_files.
EmptyIndex ==
    [bktree |-> None, word_documents |-> <<>>, word_counts |-> <<>>,
     documents |-> <<>>]

\* Lines 74-77 with the posting written once per file and word replaced by
\* a write that forgets the earlier postings of the word.
PostOverwrite(ix, word, count, doc) ==
    [ix EXCEPT
       !.bktree = IF DictHas(ix.word_documents, word) THEN @
                  ELSE BKAdd(@, word),
       !.word_documents = DictSet(@, word, <<doc>>),
       !.word_counts = DictSet(@, word,
                          (IF DictHas(@, word) THEN DictGet(@, word) ELSE 0)
                             + count)]

\* Lines 74-77 for one (word, count) of a document.
Post(ix, word, count, doc) ==
    [ix EXCEPT
       !.bktree = IF DictHas(ix.word_documents, word) THEN @
                  ELSE BKAdd(@, word),
       !.word_documents = DictSet(@, word,
                             (IF DictHas(@, word) THEN DictGet(@, word)
                              ELSE <<>>) \o <<doc>>),
       !.word_counts = DictSet(@, word,
                          (IF DictHas(@, word) THEN DictGet(@, word) ELSE 0)
                             + count)]

\* Lines 73-77: the loop over the sorted counts.
RECURSIVE PostAll(_, _, _)
PostAll(ix, items, doc) ==
    IF items = <<>> THEN ix
    ELSE PostAll(Post(ix, Head(items)[1], Head(items)[2], doc),
                 Tail(items), doc)

\* [word for word in words if word not in stop_words]
FilterStops(words, stops) ==
    LET Kept(word) == word \notin stops IN SelectSeq(words, Kept)

\* documents[doc] = ...: a negative index counts from the end of the list.
Slot(doc) == IF doc < 0 THEN doc + DocumentsSize ELSE doc

\* Lines 63-79 for one file whose name and slot do not raise.
IndexWords(ix, words, doc, stops) ==
    [PostAll(ix, SortByCountDesc(EntityCounts(words, stops, <<>>)), doc)
       EXCEPT !.documents = DictSet(@, Slot(doc), FilterStops(words, stops))]

IndexOneFile(ix, f, stops) == IndexWords(ix, FileWords(f), DocOf(f), stops)

\* index_files over a list of files that do not raise, in walk order.
RECURSIVE IndexFiles(_, _, _)
IndexFiles(ix, files, stops) ==
    IF files = <<>> THEN ix
    ELSE IndexFiles(IndexOneFile(ix, Head(files), stops), Tail(files), stops)

(***************************************************************************)
(* fuzzy_search.py: FuzzySearch                                            *)
(***************************************************************************)
\* Scores are Python floats, IEEE 754 doubles.  A positive double is the
\* pair <<m, e>> of its 53-bit significand m, 2^52 <= m < 2^53, and its
\* exponent e; its value is m * 2^e.  m is written in limbs base 65536,
\* least significant first, without a leading zero limb.  0.0 is
\* <<<<>>, 0>>.  The scores of the searches are far from the subnormal
\* range and from overflow.
LimbBase == 65536

LimbWidth == 16

SignificandBits == 53

Limb0(a) == IF a = <<>> THEN 0 ELSE a[1]

Rest(a) == IF a = <<>> THEN <<>> ELSE Tail(a)

RECURSIVE BigTrim(_)
BigTrim(a) ==
    IF a = <<>> THEN a
    ELSE IF a[Len(a)] = 0 THEN BigTrim(SubSeq(a, 1, Len(a) - 1))
    ELSE a

\* a + b + c for a carry c.
RECURSIVE BigAddCarry(_, _, _)
BigAddLimb(a, b, sum) ==
    <<sum % LimbBase>> \o BigAddCarry(Rest(a), Rest(b), sum \div LimbBase)

BigAddCarry(a, b, c) ==
    IF a = <<>> /\ b = <<>> THEN (IF c = 0 THEN <<>> ELSE <<c>>)
    ELSE BigAddLimb(a, b, Limb0(a) + Limb0(b) + c)

\* a * f + c for a factor f of at most 2^15.
RECURSIVE BigMulSmall(_, _, _)
BigMulLimb(a, f, product) ==
    <<product % LimbBase>> \o BigMulSmall(Tail(a), f, product \div LimbBase)

BigMulSmall(a, f, c) ==
    IF a = <<>> THEN (IF c = 0 THEN <<>> ELSE <<c>>)
    ELSE BigMulLimb(a, f, a[1] * f + c)

\* a * 2^d
BigShiftLeft(a, d) ==
    IF a = <<>> THEN <<>>
    ELSE [i \in 1..(d \div LimbWidth) |-> 0]
            \o BigMulSmall(a, 2^(d % LimbWidth), 0)

\* <<a \div n, a % n>> for a divisor n of at most 2^15: long division
\* from the most significant limb a[i] down, r the remainder so far and q
\* the limbs of the quotient so far.
RECURSIVE BigDivFrom(_, _, _, _, _)
BigDivLimb(a, n, i, q, dividend) ==
    BigDivFrom(a, n, i - 1, dividend % n, <<dividend \div n>> \o q)

BigDivFrom(a, n, i, r, q) ==
    IF i = 0 THEN <<BigTrim(q), r>>
    ELSE BigDivLimb(a, n, i, q, r * LimbBase + a[i])

BigDivSmall(a, n) == BigDivFrom(a, n, Len(a), 0, <<>>)

\* The number of bits of a.
LimbBits(x) == CHOOSE k \in 1..LimbWidth : 2^(k - 1) <= x /\ x < 2^k

BigBits(a) ==
    IF a = <<>> THEN 0
    ELSE LimbWidth * (Len(a) - 1) + LimbBits(a[Len(a)])

\* <<a \div 2^s, whether a nonzero bit was shifted out>>
ShiftedOut(dropped, qr) ==
    <<qr[1], (\E i \in 1..Len(dropped) : dropped[i] # 0) \/ qr[2] # 0>>

BigShiftRight(a, s) ==
    ShiftedOut(SubSeq(a, 1, s \div LimbWidth),
               BigDivSmall(SubSeq(a, s \div LimbWidth + 1, Len(a)),
                           2^(s % LimbWidth)))

\* a < b for a and b of equal length.
RECURSIVE BigLess(_, _)
BigLess(a, b) ==
    IF a = <<>> THEN FALSE
    ELSE IF a[Len(a)] # b[Len(b)] THEN a[Len(a)] < b[Len(b)]
    ELSE BigLess(SubSeq(a, 1, Len(a) - 1), SubSeq(b, 1, Len(b) - 1))

\* Rounding to the nearest double, ties to the even significand.  kl is
\* <<keep, last>>: the 53 bits kept and the first bit dropped; sticky says
\* that a later bit dropped is set.
Renormalise(m, e) ==
    IF BigBits(m) = SignificandBits + 1
    THEN <<BigDivSmall(m, 2)[1], e + 1>>
    ELSE <<m, e>>

RoundHalfEven(kl, e, sticky) ==
    Renormalise(IF kl[2] = 1 /\ (sticky \/ kl[1][1] % 2 = 1)
                THEN BigAddCarry(kl[1], <<>>, 1)
                ELSE kl[1],
                e)

RoundShifted(ts, e, sticky) ==
    RoundHalfEven(BigDivSmall(ts[1], 2), e, sticky \/ ts[2])

RoundBits(S, e, sticky, bits) ==
    IF bits <= SignificandBits
    THEN <<BigShiftLeft(S, SignificandBits - bits),
           e - (SignificandBits - bits)>>
    ELSE RoundShifted(BigShiftRight(S, bits - SignificandBits - 1),
                      e + (bits - SignificandBits), sticky)

\* The double nearest to S * 2^e (to a little more, if sticky).
RoundToDouble(S, e, sticky) == RoundBits(S, e, sticky, BigBits(S))

\* defaultdict(float)'s default 0.0
Zero == << <<>>, 0 >>

\* 1.0
One == <<BigShiftLeft(<<1>>, SignificandBits - 1), 1 - SignificandBits>>

\* x / n for a double x and an int n, 1 <= n <= 2^15.
QuotientRounded(qr, e) == RoundToDouble(qr[1], e, qr[2] # 0)

DoubleDiv(x, n) ==
    IF x[1] = <<>> THEN x
    ELSE QuotientRounded(BigDivSmall(BigShiftLeft(x[1], LimbWidth), n),
                         x[2] - LimbWidth)

\* x + y for doubles x, y >= 0.
AddOrdered(x, y) ==
    IF x[2] - y[2] > SignificandBits + 7 THEN x
    ELSE RoundToDouble(BigAddCarry(BigShiftLeft(x[1], x[2] - y[2]), y[1], 0),
                       y[2], FALSE)

DoubleAdd(x, y) ==
    IF x[1] = <<>> THEN y
    ELSE IF y[1] = <<>> THEN x
    ELSE IF x[2] >= y[2] THEN AddOrdered(x, y)
    ELSE AddOrdered(y, x)

\* x < y for doubles x, y >= 0.
DoubleLess(x, y) ==
    IF y[1] = <<>> THEN FALSE
    ELSE IF x[1] = <<>> THEN TRUE
    ELSE IF x[2] # y[2] THEN x[2] < y[2]
    ELSE BigLess(x[1], y[1])

\* match_score = 1 / (distance + 1)
MatchScore(distance) == DoubleDiv(One, distance + 1)

\* The selectable scoring policies; None stands for the default.
Policies == {"ratio", "ratio_with_penalty", "tfidf", "tfidf_with_penalty"}

\* defaultdict lookup: the value under key, or the default.
DictGetDefault(dict, key, default) ==
    IF DictHas(dict, key) THEN DictGet(dict, key) ELSE default

\* The tfidf policies multiply match_score by their tfidf argument, for
\* which search_bktree and search_symspell pass None: float * None raises
\* TypeError.
PolicyRaises(policy) == policy \in {"tfidf", "tfidf_with_penalty"}

\* One call score_func(document_scores, doc_id, match_score, L, prev_docs,
\* None) of a policy that does not raise, with match_score =
\* 1 / (distance + 1) and L the normalizer passed by the caller.
\* acc holds document_scores and prev_docs.
ScoreCall(policy, acc, doc_id, distance, L) ==
    IF policy = "ratio"
    THEN [acc EXCEPT !.document_scores =
             DictSet(@, doc_id,
                DoubleAdd(DictGetDefault(@, doc_id, Zero),
                          DoubleDiv(MatchScore(distance), L)))]
    ELSE LET prev == DictGetDefault(acc.prev_docs, doc_id, 0) + 1
         IN  [acc EXCEPT
                !.prev_docs = DictSet(@, doc_id, prev),
                !.document_scores =
                   DictSet(@, doc_id,
                      DoubleAdd(DictGetDefault(@, doc_id, Zero),
                                DoubleDiv(MatchScore(distance),
                                          L * prev)))]

\* for doc_id in posting: score_func(...).  A raising policy raises at the
\* first call.
RECURSIVE ScorePosting(_, _, _, _, _)
ScorePosting(policy, acc, posting, distance, L) ==
    IF posting = <<>> \/ acc.raised THEN acc
    ELSE IF PolicyRaises(policy) THEN [acc EXCEPT !.raised = TRUE]
    ELSE ScorePosting(policy,
                      ScoreCall(policy, acc, Head(posting), distance, L),
                      Tail(posting), distance, L)

\* The loop over one match list.  guarded: search_bktree skips a match
\* that is no key of word_documents (line 213); search_symspell indexes
\* word_documents directly (line 255), and word_documents is a
\* defaultdict(list), which inserts a missing key with an empty list.
RECURSIVE ScoreMatches(_, _, _, _, _)
ScoreMatches(policy, acc, matches, L, guarded) ==
    IF matches = <<>> \/ acc.raised THEN acc
    ELSE LET distance == Head(matches)[1]
             match == Head(matches)[2]
             known == DictHas(acc.word_documents, match)
         IN  IF guarded /\ ~known
             THEN ScoreMatches(policy, acc, Tail(matches), L, guarded)
             ELSE LET acc1 == IF known THEN acc
                              ELSE [acc EXCEPT !.word_documents =
                                       DictSet(@, match, <<>>)]
                  IN  ScoreMatches(policy,
                         ScorePosting(policy, acc1,
                                      DictGet(acc1.word_documents, match),
                                      distance, L),
                         Tail(matches), L, guarded)

\* The loop over results[lo..hi]: a fresh prev_docs for every match list,
\* the normalizer L * len(matches).  The range is walked in two halves,
\* left before right, which is the order of the loop.
RECURSIVE ScoreRange(_, _, _, _, _, _, _)
ScoreRange(policy, acc, results, lo, hi, L, guarded) ==
    IF lo > hi \/ acc.raised THEN acc
    ELSE IF lo = hi
    THEN ScoreMatches(policy, [acc EXCEPT !.prev_docs = <<>>],
                      results[lo], L * Len(results[lo]), guarded)
    ELSE LET mid == (lo + hi) \div 2
             left == ScoreRange(policy, acc, results, lo, mid, L, guarded)
         IN  ScoreRange(policy, left, results, mid + 1, hi, L, guarded)

ScoreResults(policy, acc, results, L, guarded) ==
    ScoreRange(policy, acc, results, 1, Len(results), L, guarded)

\* The key with equal scores ordered by ascending document id.
KeyLessAscendingIds(x, y) ==
    IF x[2] = y[2] THEN x[1] > y[1] ELSE DoubleLess(x[2], y[2])

\* _getitem1_0: the key (score, doc_id) of an item (doc_id, score),
\* compared as Python compares tuples.
KeyLess(x, y) ==
    IF x[2] = y[2] THEN x[1] < y[1] ELSE DoubleLess(x[2], y[2])

\* The items in descending order of their key.
RECURSIVE InsertByKeyDesc(_, _)
InsertByKeyDesc(sorted, e) ==
    IF sorted = <<>> THEN <<e>>
    ELSE IF KeyLess(e, sorted[Len(sorted)]) THEN Append(sorted, e)
    ELSE Append(InsertByKeyDesc(SubSeq(sorted, 1, Len(sorted) - 1), e),
                sorted[Len(sorted)])

RECURSIVE SortByKeyDesc(_)
SortByKeyDesc(items) ==
    IF items = <<>> THEN <<>>
    ELSE InsertByKeyDesc(SortByKeyDesc(SubSeq(items, 1, Len(items) - 1)),
                         items[Len(items)])

\* heapq.nlargest(k, document_scores.items(), key=_getitem1_0): empty for
\* k <= 0, else the k largest items in descending order of the key.
NLargest(k, items) ==
    IF k <= 0 THEN <<>>
    ELSE SubSeq(SortByKeyDesc(items), 1, Min(k, Len(items)))

\* Code-point order of the characters of the alphabet.
CodePointOrder ==
    <<" ","a","b","c","d","e","f","g","h","i","j","k","l","m","n","o","p",
      "q","r","s","t","u","v","w","x","y","z","e-acute","o-acute",
      "c-acute","c-caron","d-stroke","s-caron","z-caron">>

RankOf ==
    [c \in { CodePointOrder[i] : i \in 1..Len(CodePointOrder) } |->
       CHOOSE i \in 1..Len(CodePointOrder) : CodePointOrder[i] = c]

CharRank(c) == RankOf[c]

\* a < b for Python strings.
RECURSIVE WordLess(_, _)
WordLess(a, b) ==
    IF b = <<>> THEN FALSE
    ELSE IF a = <<>> THEN TRUE
    ELSE IF Head(a) = Head(b) THEN WordLess(Tail(a), Tail(b))
    ELSE CharRank(Head(a)) < CharRank(Head(b))

\* Two ascending lists without repetitions merged into one.
RECURSIVE MergeUnique(_, _)
MergeUnique(a, b) ==
    IF a = <<>> THEN b
    ELSE IF b = <<>> THEN a
    ELSE IF Head(a) = Head(b) THEN MergeUnique(a, Tail(b))
    ELSE IF WordLess(Head(a), Head(b))
    THEN <<Head(a)>> \o MergeUnique(Tail(a), b)
    ELSE <<Head(b)>> \o MergeUnique(a, Tail(b))

\* np.unique(words): the distinct words in ascending order.
RECURSIVE Unique(_)
Unique(words) ==
    IF Len(words) <= 1 THEN words
    ELSE MergeUnique(Unique(SubSeq(words, 1, Len(words) \div 2)),
                     Unique(SubSeq(words, Len(words) \div 2 + 1, Len(words))))

\* Optimal-string-alignment (restricted Damerau-Levenshtein) distance, the
\* edit distance of SymSpell: one row of the matrix from the two before.
RECURSIVE OSACells(_, _, _, _, _, _)
OSACells(a, b, i, prev, prev2, row) ==
    LET j == Len(row)
    IN  IF j > Len(b) THEN row
        ELSE LET cost == IF a[i] = b[j] THEN 0 ELSE 1
                 plain == Min(Min(prev[j + 1] + 1, row[j] + 1), prev[j] + cost)
                 cell == IF i > 1 /\ j > 1
                         THEN (IF a[i] = b[j - 1] /\ a[i - 1] = b[j]
                               THEN Min(plain, prev2[j - 1] + 1) ELSE plain)
                         ELSE plain
             IN  OSACells(a, b, i, prev, prev2, Append(row, cell))

RECURSIVE OSARows(_, _, _, _, _)
OSARows(a, b, i, prev, prev2) ==
    IF i > Len(a) THEN prev[Len(b) + 1]
    ELSE OSARows(a, b, i + 1, OSACells(a, b, i, prev, prev2, <<i>>), prev)

OSADistance(a, b) ==
    OSARows(a, b, 1, [j \in 1..(Len(b) + 1) |-> j - 1], <<>>)

\* max_dictionary_edit_distance and max_edit_distance
MaxEditDistance == 2

EditDistanceWithin(a, b) ==
    IF Len(a) - Len(b) > MaxEditDistance THEN MaxEditDistance + 1
    ELSE IF Len(b) - Len(a) > MaxEditDistance THEN MaxEditDistance + 1
    ELSE OSADistance(a, b)

RECURSIVE MinOf(_)
MinOf(S) ==
    LET x == CHOOSE y \in S : TRUE
    IN  IF S = {x} THEN x ELSE Min(x, MinOf(S \ {x}))

RECURSIVE Closest(_, _, _)
Closest(dictionary, phrase, best) ==
    IF dictionary = <<>> THEN <<>>
    ELSE (IF EditDistanceWithin(phrase, Head(dictionary)[1]) = best
          THEN << <<best, Head(dictionary)[1], Head(dictionary)[2]>> >>
          ELSE <<>>)
         \o Closest(Tail(dictionary), phrase, best)

\* The suggestions ordered by descending count (all have one distance).
RECURSIVE InsertBySuggestionCount(_, _)
InsertBySuggestionCount(sorted, e) ==
    IF sorted = <<>> THEN <<e>>
    ELSE IF sorted[Len(sorted)][3] >= e[3] THEN Append(sorted, e)
    ELSE Append(InsertBySuggestionCount(SubSeq(sorted, 1, Len(sorted) - 1), e),
                sorted[Len(sorted)])

RECURSIVE SortBySuggestionCount(_)
SortBySuggestionCount(list) ==
    IF list = <<>> THEN <<>>
    ELSE InsertBySuggestionCount(
            SortBySuggestionCount(SubSeq(list, 1, Len(list) - 1)),
            list[Len(list)])

PairsOf(suggestions) ==
    [i \in 1..Len(suggestions) |-> <<suggestions[i][1], suggestions[i][2]>>]

ClosestSuggestions(dictionary, phrase, best) ==
    IF best > MaxEditDistance THEN <<>>
    ELSE PairsOf(SortBySuggestionCount(Closest(dictionary, phrase, best)))

\* [(s.distance, s.term) for s in lookup(w, Verbosity.CLOSEST,
\* max_edit_distance=2)]: the word itself when it is in the dictionary,
\* else the dictionary terms at the smallest edit distance, if that is at
\* most 2, most frequent first.
SymSpellLookup(dictionary, phrase) ==
    IF DictHas(dictionary, phrase) THEN << <<0, phrase>> >>
    ELSE IF dictionary = <<>> THEN <<>>
    ELSE ClosestSuggestions(dictionary, phrase,
            MinOf({ EditDistanceWithin(phrase, dictionary[i][1]) :
                       i \in 1..Len(dictionary) }))

\* tolerance = 20 in search_bktree
SearchTolerance == 20

\* len(words) > 86 selects SymSpell
SymSpellThreshold == 86

StartScores(wd) ==
    [document_scores |-> <<>>, prev_docs |-> <<>>, word_documents |-> wd,
     raised |-> FALSE]

\* What a search leaves: the list returned or the exception raised, with
\* the local document_scores and results, and word_documents afterwards.
Outcome(acc, results, k) ==
    [status |-> IF acc.raised THEN "TypeError" ELSE "returned",
     value |-> IF acc.raised THEN <<>> ELSE NLargest(k, acc.document_scores),
     document_scores |-> acc.document_scores,
     results |-> results,
     word_documents |-> acc.word_documents]

\* search_bktree(words, k, score_func, n); order is the order in which
\* the find workers complete.
BKResults(bktree, words, n, order) ==
    [i \in 1..Len(words) |->
       BKFind(bktree, words[order[i]], SearchTolerance, n)]

search_bktree(wd, results, L, k, policy) ==
    Outcome(ScoreResults(policy, StartScores(wd), results, L, TRUE),
            results, k)

\* search_symspell(words, k, score_func)
SymSpellResults(dictionary, words) ==
    [i \in 1..Len(words) |-> SymSpellLookup(dictionary, words[i])]

search_symspell(wd, results, L, k, policy) ==
    Outcome(ScoreResults(policy, StartScores(wd), results, L, FALSE),
            results, k)

\* if score_func == None: score_func = self.score_match_query_ratio_with_penalty
SelectPolicy(score_func) ==
    IF score_func = "None" THEN "ratio_with_penalty" ELSE score_func

\* words = _npUnique([word for word in query.split() if word not in
\* self.stop_words]); query is the list query.split().
QueryWords(query, stops) == Unique(FilterStops(query, stops))

\* find_relevant_documents from the unique words on.
find_relevant_documents(bktree, dictionary, wd, words, k, score_func, n, order) ==
    IF Len(words) > SymSpellThreshold
    THEN search_symspell(wd, SymSpellResults(dictionary, words), Len(words),
                         k, SelectPolicy(score_func))
    ELSE search_bktree(wd, BKResults(bktree, words, n, order), Len(words),
                       k, SelectPolicy(score_func))

(***************************************************************************)
(* State                                                                   *)
(***************************************************************************)
VARIABLES
    tree,           \* BKTree.tree of the tree being built
    adds,           \* number of add calls made on it directly
    found,          \* the last find call and the list it returned
    file,           \* the JSON file written by save_to_file
    savedTree,      \* history: the value of tree when file was written
    loaded,         \* BKTree.tree of a second BKTree, set by load_from_file
    directory,      \* the *.txt files under text_path
    pending,        \* the files the directory walk has not yielded yet
    stop_words,     \* the stop-word dict (its key set)
    word_documents, \* defaultdict(list): word -> posting list
    word_counts,    \* defaultdict(int): word -> corpus frequency
    documents,      \* the slots of the documents list written so far
    ipc,            \* where index_files is: idle, loop, returned, raised
    sym_spell,      \* the dictionary SymSpell loaded: word -> count
    result          \* the last find_relevant_documents call and its outcome

bkvars == <<tree, adds, found, file, savedTree, loaded>>

ixvars == <<directory, pending, stop_words, word_documents, word_counts,
            documents, ipc>>

qvars == <<sym_spell, result>>

vars == <<bkvars, ixvars, qvars>>

NoCall == [called |-> FALSE]

NoFile == [exists |-> FALSE]

\* BKTree.__init__ for both trees; nothing called, nothing on disk.
BKStart ==
    /\ tree = None
    /\ adds = 0
    /\ found = NoCall
    /\ file = NoFile
    /\ savedTree = None
    /\ loaded = None

\* No indexing run.
IndexIdle ==
    /\ directory = {}
    /\ pending = {}
    /\ stop_words = {}
    /\ word_documents = <<>>
    /\ word_counts = <<>>
    /\ documents = <<>>
    /\ ipc = "idle"

\* No query engine.
QueryIdle ==
    /\ sym_spell = <<>>
    /\ result = NoCall

(***************************************************************************)
(* The BK-tree as a data structure                                         *)
(***************************************************************************)
BKInit == BKStart /\ IndexIdle /\ QueryIdle

Add(item) ==
    /\ adds < MaxAdds
    /\ tree' = BKAdd(tree, item)
    /\ adds' = adds + 1
    /\ UNCHANGED <<found, file, savedTree, loaded, ixvars, qvars>>

Find(item, tolerance, k) ==
    /\ found' = [called |-> TRUE, item |-> item, tolerance |-> tolerance,
                 k |-> k,
                 result |-> BKFind(tree, item, tolerance, k)]
    /\ UNCHANGED <<tree, adds, file, savedTree, loaded, ixvars, qvars>>

SaveToFile ==
    /\ file' = [exists |-> TRUE, text |-> JsonDump(to_dict(tree))]
    /\ savedTree' = tree
    /\ UNCHANGED <<tree, adds, found, loaded, ixvars, qvars>>

LoadFromFile ==
    /\ file.exists
    /\ loaded' = from_dict(JsonLoad(file.text))
    /\ UNCHANGED <<tree, adds, found, file, savedTree, ixvars, qvars>>

\* Any sequence of add and find calls.
BKNext ==
    \/ \E item \in Vocabulary : Add(item)
    \/ \E item \in Probes, tolerance \in Tolerances, k \in Ks :
          Find(item, tolerance, k)

SpecBK == BKInit /\ [][BKNext]_vars

\* Persistence: a tree is built, saved at any point, and loaded into the
\* second BKTree as FuzzySearch.__init__ does.
PersistNext ==
    \/ \E item \in Vocabulary : Add(item)
    \/ SaveToFile
    \/ LoadFromFile

SpecPersist == BKInit /\ [][PersistNext]_vars

(***************************************************************************)
(* The indexing run                                                        *)
(***************************************************************************)
\* index_files is entered on a directory of at most MaxFiles files.
IndexInit ==
    /\ BKStart
    /\ directory \in { d \in SUBSET SampleFiles : Cardinality(d) <= MaxFiles }
    /\ pending = directory
    /\ stop_words \in StopWordSets
    /\ word_documents = <<>>
    /\ word_counts = <<>>
    /\ documents = <<>>
    /\ ipc = "loop"
    /\ QueryIdle

Locals ==
    [bktree |-> tree, word_documents |-> word_documents,
     word_counts |-> word_counts, documents |-> documents]

\* The locals after lines 73-77 of an iteration.
Posted(ix) ==
    /\ tree' = ix.bktree
    /\ word_documents' = ix.word_documents
    /\ word_counts' = ix.word_counts

\* The locals after line 79 of an iteration.
Stored(ix) ==
    /\ Posted(ix)
    /\ documents' = ix.documents

\* One iteration of the loop of line 62 on a file whose name yields a
\* document id inside the documents list.
IndexFile(f) ==
    /\ ipc = "loop"
    /\ f \in pending
    /\ ~NameRaises(f)
    /\ ~SlotRaises(f)
    /\ Stored(IndexOneFile(Locals, f, stop_words))
    /\ pending' = pending \ {f}
    /\ UNCHANGED <<adds, found, file, savedTree, loaded, directory,
                   stop_words, ipc, qvars>>

\* Line 65 raises IndexError or ValueError; nothing catches it, so
\* index_files and run_indexing end there.
IndexFileNameRaises(f) ==
    /\ ipc = "loop"
    /\ f \in pending
    /\ NameRaises(f)
    /\ pending' = pending \ {f}
    /\ ipc' = "raised"
    /\ UNCHANGED <<bkvars, directory, stop_words, word_documents,
                   word_counts, documents, qvars>>

\* Line 79 raises IndexError after lines 73-77 have posted the words of
\* the file.
IndexFileSlotRaises(f) ==
    /\ ipc = "loop"
    /\ f \in pending
    /\ ~NameRaises(f)
    /\ SlotRaises(f)
    /\ Posted(PostAll(Locals,
                      SortByCountDesc(
                         EntityCounts(FileWords(f), stop_words, <<>>)),
                      DocOf(f)))
    /\ pending' = pending \ {f}
    /\ ipc' = "raised"
    /\ UNCHANGED <<adds, found, file, savedTree, loaded, directory,
                   stop_words, documents, qvars>>

\* The walk is exhausted: lines 81-84.  compute_tfidf is scikit-learn's;
\* the matrix it returns is not part of the state.
IndexReturn ==
    /\ ipc = "loop"
    /\ pending = {}
    /\ ipc' = "returned"
    /\ UNCHANGED <<bkvars, directory, pending, stop_words, word_documents,
                   word_counts, documents, qvars>>

\* The walk yields the files in any order.
IndexNext ==
    \/ \E f \in SampleFiles : IndexFile(f)
    \/ \E f \in SampleFiles : IndexFileNameRaises(f)
    \/ \E f \in SampleFiles : IndexFileSlotRaises(f)
    \/ IndexReturn

SpecIndex == IndexInit /\ [][IndexNext]_vars

(***************************************************************************)
(* The query engine                                                        *)
(***************************************************************************)
\* The directory walks of the indexing runs whose artifacts the engine
\* loads.
SampleWalks ==
    { <<>>,
      <<FileEna, FileDva>>,
      <<FileTrii, FileDva, FileTri>>,
      <<FileKava, FileVoda>> }

\* word_counts.txt is read on its own: it is the one of the run that wrote
\* word_documents.pickle, or one that also lists a word of another corpus.
DictionaryExtras == { <<>>, << << <<"t","i">>, 1 >> >> }

\* The index directories the engine is constructed on: the walk of the
\* indexing run, its stop-words, and what word_counts.txt lists beyond the
\* words of the run.
Artifacts(walk, stops, extra) ==
    [walk |-> walk, stops |-> stops, extra |-> extra]

SampleIndexes ==
    { Artifacts(walk, {}, <<>>) : walk \in SampleWalks }
    \cup { Artifacts(<<FileTrii, FileDva, FileTri>>, stops, <<>>) :
              stops \in StopWordSets }
    \cup { Artifacts(walk, {}, extra) :
              walk \in {<<>>, <<FileEna, FileDva>>},
              extra \in DictionaryExtras }

Trii == <<"t","r","i","i">>

\* The queries, as query.split().
QueryTrii == <<Trii>>

QueryDva == << <<"d","v","a">> >>

QueryMix == << <<"i","n">>, Trii, <<"e","n","a","a">>, Trii >>

QueryStop == << <<"i","n">> >>

QueryEmpty == <<>>

Kava == <<"k","a","v","a">>

Kawa == <<"k","a","w","a">>

QueryKawa == <<Kawa>>

Letters == <<"a", "d", "e", "i", "n", "o", "r", "t", "v", "z">>

\* 85 words of seven letters, far from every word of the sample corpora.
LongWords ==
    [i \in 1..85 |->
       <<Letters[((i - 1) \div 10) + 1], Letters[((i - 1) % 10) + 1],
         "q", "q", "q", "q", "q">>]

\* A query of 87 distinct words, more than the 86 of line 289.
QueryLong == LongWords \o << <<"t","i">>, <<"t","r","i">> >>

SearchKs == {0, 1, 3}

PolicyArgs == Policies \cup {"None"}

ShortQueries == {QueryTrii, QueryDva, QueryMix, QueryStop, QueryEmpty}

\* The calls made: (query, k, score_func, n).  n = -1 is the default, all
\* matches of a word; n = 1 stops find at its first match from the tree.
SearchInputs ==
    (ShortQueries \X SearchKs \X {"ratio"} \X {-1})
    \cup (ShortQueries \X {3} \X PolicyArgs \X {-1})
    \cup (ShortQueries \X {3} \X {"ratio", "None"} \X {1})
    \cup ({QueryLong} \X {3} \X {"ratio", "tfidf"} \X {-1})
    \cup ({QueryKawa} \X SearchKs \X {"ratio"} \X {-1})

\* FuzzySearch.__init__ on the artifacts ix of an indexing run: the
\* pickled word_documents, the BK-tree through its JSON file, the SymSpell
\* dictionary from word_counts.txt.
EngineLoaded(ix, extra) ==
    /\ word_documents = ix.word_documents
    /\ word_counts = ix.word_counts
    /\ loaded = from_dict(JsonLoad(JsonDump(to_dict(ix.bktree))))
    /\ sym_spell = ix.word_counts \o extra

\* The engine is constructed on the artifacts of one of the sample runs.
QueryInit ==
    /\ \E index \in SampleIndexes :
          /\ stop_words = index.stops
          /\ EngineLoaded(IndexFiles(EmptyIndex, index.walk, index.stops),
                          index.extra)
    /\ tree = None
    /\ adds = 0
    /\ found = NoCall
    /\ file = NoFile
    /\ savedTree = None
    /\ directory = {}
    /\ pending = {}
    /\ documents = <<>>
    /\ ipc = "idle"
    /\ result = NoCall

\* The call returned or raised: its record, and word_documents afterwards.
SearchDone(query, k, score_func, n, L, out) ==
    /\ result' = [called |-> TRUE, query |-> query, k |-> k,
                  score_func |-> score_func, n |-> n, L |-> L,
                  status |-> out.status, value |-> out.value,
                  document_scores |-> out.document_scores,
                  results |-> out.results]
    /\ word_documents' = out.word_documents
    /\ UNCHANGED <<bkvars, directory, pending, stop_words, word_counts,
                   documents, ipc, sym_spell>>

\* The find workers of search_bktree complete in any order.
CompletionOrders(L) ==
    IF L > SymSpellThreshold THEN {<<>>} ELSE Permutations(1..L)

SearchWords(query, k, score_func, n, words) ==
    \E order \in CompletionOrders(Len(words)) :
       SearchDone(query, k, score_func, n, Len(words),
                  find_relevant_documents(loaded, sym_spell, word_documents,
                                          words, k, score_func, n, order))

\* find_relevant_documents(query, k, score_func, n)
Search(query, k, score_func, n) ==
    SearchWords(query, k, score_func, n, QueryWords(query, stop_words))

QueryNext ==
    \E input \in SearchInputs :
       Search(input[1], input[2], input[3], input[4])

SpecQuery == QueryInit /\ [][QueryNext]_vars

(***************************************************************************)
(* Properties of the BK-tree                                               *)
(***************************************************************************)
Elems(list) == { list[i] : i \in 1..Len(list) }

StoredWords(t) == Elems(NodeItems(t))

\* A step in which find returned: found is only written by Find, which
\* leaves the tree unchanged.
FindReturned == found' # found

\* C1: for every tree built by add calls, every probe longer than 3
\* characters and every tolerance, find(p, t, -1) contains every stored
\* word within distance t of the probe and no word farther than t.
C1_FindCompleteWithinTolerance ==
    [][(FindReturned /\ Len(found'.item) > 3 /\ found'.k = -1) =>
         /\ \A w \in StoredWords(tree) :
               fuzzy_ratio_distance(found'.item, w) <= found'.tolerance
                  => <<fuzzy_ratio_distance(found'.item, w), w>>
                        \in Elems(found'.result)
         /\ \A e \in Elems(found'.result) :
               fuzzy_ratio_distance(found'.item, e[2]) <= found'.tolerance
      ]_vars

\* C2 as stated: for a probe of length <= 3, find returns exactly
\* [(0, probe)] whatever the tree holds, the empty tree included, for every
\* tolerance and every k.
C2_ShortProbeAnyTree ==
    [][(FindReturned /\ Len(found'.item) <= 3) =>
         found'.result = << <<0, found'.item>> >>]_vars

\* C2 amended: for a probe of length <= 3, find returns exactly
\* [(0, probe)] on every non-empty tree, for every tolerance and every k;
\* on the empty tree it returns the empty list.
C2_ShortProbeNonEmptyTree ==
    [][(FindReturned /\ Len(found'.item) <= 3) =>
         found'.result = IF tree = None THEN <<>>
                         ELSE << <<0, found'.item>> >>]_vars

C2_Witness ==
    /\ found.called
    /\ Len(found.item) <= 3
    /\ found.tolerance = 20
    /\ found.result = << <<0, found.item>> >>
    /\ Cardinality(StoredWords(tree)) >= 2

\* C3: after any sequence of add calls the tree holds at most one node per
\* word, and add(w) for a word already stored leaves the whole tree
\* unchanged.
C3_AddDeduplicates ==
    [][/\ Len(NodeItems(tree')) = Cardinality(StoredWords(tree'))
       /\ \A w \in StoredWords(tree) : Add(w) => tree' = tree]_vars

\* More add calls than nodes: some add met a word already stored, below
\* the root.
C3_Witness ==
    /\ Len(NodeItems(tree)) >= 2
    /\ adds > Len(NodeItems(tree))

\* C4: loading the JSON text of a saved tree (the empty tree included)
\* yields a tree equal to the saved one in structure, words and integer
\* distance keys, which answers find as the saved tree does for every
\* probe, tolerance and k.
C4_SerializationRoundTrip ==
    [][LoadFromFile =>
         /\ loaded' = savedTree
         /\ \A item \in Probes, tolerance \in Tolerances, k \in Ks :
               BKFind(loaded', item, tolerance, k)
                  = BKFind(savedTree, item, tolerance, k)]_vars

\* A tree of depth two, with a two-digit key, has been saved and loaded.
C4_Witness ==
    /\ file.exists
    /\ loaded = savedTree
    /\ loaded # None
    /\ \E i \in 1..Len(loaded[2]) :
          /\ loaded[2][i][1] >= 10
          /\ loaded[2][i][2][2] # <<>>

\* list is in ascending order of its distances.
AscendingDistances(list) ==
    \A i, j \in 1..Len(list) : i < j => list[i][1] <= list[j][1]

\* C11: for every k >= 0, find returns at most k pairs; every pair
\* returned has a distance within the tolerance and the list is in
\* ascending order of distance; find with k = -1 returns every pair that
\* find returns with some limit k.
C11_FindAtMostKSorted ==
    [][FindReturned =>
         /\ found'.k >= 0 => Len(found'.result) <= found'.k
         /\ \A e \in Elems(found'.result) : e[1] <= found'.tolerance
         /\ AscendingDistances(found'.result)
         /\ found'.k = -1 =>
               \A k \in Ks :
                  Elems(BKFind(tree, found'.item, found'.tolerance, k))
                     \subseteq Elems(found'.result)]_vars

(***************************************************************************)
(* Properties of the indexing run                                          *)
(***************************************************************************)
RECURSIVE Occurrences(_, _)
Occurrences(word, words) ==
    IF words = <<>> THEN 0
    ELSE (IF Head(words) = word THEN 1 ELSE 0) + Occurrences(word, Tail(words))

RECURSIVE TotalOccurrences(_, _)
TotalOccurrences(word, files) ==
    IF files = {} THEN 0
    ELSE LET f == CHOOSE g \in files : TRUE
         IN  Occurrences(word, FileWords(f))
                + TotalOccurrences(word, files \ {f})

DistinctDocNumbers(files) ==
    \A f, g \in files : f # g => DocOf(f) # DocOf(g)

CorpusWords(files, stops) ==
    UNION { Elems(FileWords(f)) : f \in files } \ stops

\* C5: after index_files has processed files with distinct valid document
\* numbers, word_documents[w] lists exactly the 0-based ids of the
\* documents that contain w, each once, and word_counts[w] is the number of
\* occurrences of w over all documents, for every non-stop word w.
C5_PostingsAndCounts ==
    (ipc = "returned" /\ DistinctDocNumbers(directory)) =>
       /\ DictKeys(word_documents) = CorpusWords(directory, stop_words)
       /\ DictKeys(word_counts) = CorpusWords(directory, stop_words)
       /\ \A w \in CorpusWords(directory, stop_words) :
             /\ Elems(DictGet(word_documents, w))
                   = { DocOf(f) : f \in { g \in directory :
                                            w \in Elems(FileWords(g)) } }
             /\ Len(DictGet(word_documents, w))
                   = Cardinality(Elems(DictGet(word_documents, w)))
             /\ DictGet(word_counts, w) = TotalOccurrences(w, directory)

\* Scenario S6, with a third file that holds a stop-word.
C5_Witness ==
    /\ ipc = "returned"
    /\ directory = {FileEna, FileDva, FileTrii}
    /\ stop_words = {<<"i","n">>}
    /\ DictGet(word_documents, <<"e","n","a">>) = <<0>>
    /\ DictGet(word_documents, <<"d","v","a">>) = <<0, 1>>
    /\ DictGet(word_documents, <<"t","r","i">>) = <<1, 2>>
    /\ DictGet(word_counts, <<"d","v","a">>) = 3
    /\ DictGet(word_counts, <<"t","r","i">>) = 2

\* C8: a file whose name does not yield a document id is skipped and the
\* run continues: it does not abort, and postings, counts and BK-tree
\* carry nothing of the skipped file.
C8_BadNameSkipped ==
    [][\A f \in pending :
          (NameRaises(f) /\ pending' = pending \ {f}) =>
             /\ ipc' = "loop"
             /\ UNCHANGED <<tree, word_documents, word_counts>>]_vars


\* The orders in which the walk of line 62 can yield the files of a
\* directory.
Walks(files) ==
    { walk \in [1..Cardinality(files) -> files] :
         \A i, j \in 1..Cardinality(files) : i # j => walk[i] # walk[j] }

\* A dict written with sorted keys: what it maps each key to, whatever the
\* order the keys went in.
SortedKeys(dict) == { dict[i] : i \in 1..Len(dict) }

\* A BK-tree with the children of every node written with sorted keys.
RECURSIVE SortedTree(_)
SortedTree(node) ==
    IF node = None THEN None
    ELSE <<node[1], { <<node[2][i][1], SortedTree(node[2][i][2])>> :
                         i \in 1..Len(node[2]) }>>

SamePostings(ix) ==
    SortedKeys(ix.word_documents) = SortedKeys(word_documents)

SameCounts(ix) == SortedKeys(ix.word_counts) = SortedKeys(word_counts)

SameTree(ix) == SortedTree(ix.bktree) = SortedTree(tree)

\* C14: when index_files has returned, a run over the same files and
\* stop-words that the walk yields in any other order leaves, with keys
\* sorted, the same posting list for every word, the same word counts and
\* the same BK-tree.
C14_IndexerDeterminism ==
    ipc = "returned" =>
       \A walk \in Walks(directory) :
          /\ SamePostings(IndexFiles(EmptyIndex, walk, stop_words))
          /\ SameCounts(IndexFiles(EmptyIndex, walk, stop_words))
          /\ SameTree(IndexFiles(EmptyIndex, walk, stop_words))

(***************************************************************************)
(* Properties of the query engine                                          *)
(***************************************************************************)
\* A call of find_relevant_documents has returned its list.
Returned == result.called /\ result.status = "returned"

\* Item x = (doc_id, score) ranks above item y: a higher score, or the
\* same score and a larger document id.
RanksAbove(x, y) ==
    \/ DoubleLess(y[2], x[2])
    \/ x[2] = y[2] /\ x[1] > y[1]

\* C6: the list returned holds min(k, number of scored documents) entries
\* of document_scores, no document twice, every entry ranking above the
\* next (higher score first, equal scores by larger document id first),
\* and no scored document left out ranks above a returned one.
C6_TopKOrdering ==
    Returned =>
       /\ Len(result.value) = Min(result.k, Len(result.document_scores))
       /\ Elems(result.value) \subseteq Elems(result.document_scores)
       /\ \A i, j \in 1..Len(result.value) :
             i < j => /\ result.value[i][1] # result.value[j][1]
                      /\ RanksAbove(result.value[i], result.value[j])
       /\ \A e \in Elems(result.document_scores) \ Elems(result.value) :
             \A i \in 1..Len(result.value) : RanksAbove(result.value[i], e)

\* Two documents of equal score are returned, the larger id first.
C6_Witness ==
    /\ Returned
    /\ Len(result.value) >= 2
    /\ result.value[1][2] = result.value[2][2]
    /\ result.value[1][1] > result.value[2][1]

\* The matches the tree holds for the token of a match list (its first
\* entry is the token itself) that the list, cut by n, does not have.
AdditionalMatches(matches) ==
    IF matches = <<>> THEN {}
    ELSE Elems(BKFind(loaded, matches[1][2], SearchTolerance, -1))
            \ Elems(matches)

\* document_scores after the loop of search_bktree over the match lists.
ScoresOf(results) ==
    ScoreResults(SelectPolicy(result.score_func),
                 StartScores(word_documents), results, result.L,
                 TRUE).document_scores

\* C7: when one match list of a returned BK-tree search gains one of its
\* additional matches, no document holding the matched word scores less
\* than it did.
C7_ScoringMonotone ==
    (Returned /\ result.L <= SymSpellThreshold) =>
       \A i \in 1..Len(result.results) :
          \A m \in AdditionalMatches(result.results[i]) :
             \A D \in Elems(DictGetDefault(word_documents, m[2], <<>>)) :
                ~DoubleLess(
                    DictGetDefault(
                       ScoresOf([result.results EXCEPT ![i] = Append(@, m)]),
                       D, Zero),
                    DictGetDefault(result.document_scores, D, Zero))

\* C9: every call of find_relevant_documents returns a list, and the
\* empty one when no word is left of the query.
C9_NeverRaises ==
    result.called =>
       /\ result.status = "returned"
       /\ result.L = 0 => result.value = <<>>

\* C10: no call of find_relevant_documents changes the postings map or
\* the BK-tree the engine loaded.
C10_IndexImmutable ==
    [][word_documents' = word_documents /\ loaded' = loaded]_vars


\* C12: in a search on the BK-tree path every match of every match list
\* names a word stored in the tree, no word stands twice in a match list,
\* and every matched word is a key of word_documents, so that the skip of
\* line 213 is never taken.
C12_CandidatesAreStoredWords ==
    (result.called /\ result.L <= SymSpellThreshold) =>
       \A i \in 1..Len(result.results) :
          /\ \A m \in Elems(result.results[i]) :
                /\ m[2] \in StoredWords(loaded)
                /\ DictHas(word_documents, m[2])
          /\ \A a, b \in 1..Len(result.results[i]) :
                a < b => result.results[i][a][2] # result.results[i][b][2]


\* The engine runs on the index of scenario S2.
ScenarioS2 ==
    /\ stop_words = {}
    /\ DictKeys(word_documents)
          = DictKeys(IndexFiles(EmptyIndex, <<FileKava, FileVoda>>,
                                {}).word_documents)

\* C13: the distance between kawa and kava is 12, within the tolerance of
\* search_bktree, and on the index of scenario S2 the query kawa under
\* policy ratio with k >= 1 returns document 0 first, with the positive
\* score 1/13.
C13_ScenarioKawa ==
    (/\ ScenarioS2
     /\ result.called
     /\ result.query = QueryKawa
     /\ result.score_func = "ratio"
     /\ result.k >= 1)
       => /\ fuzzy_ratio_distance(Kawa, Kava) = 12
          /\ fuzzy_ratio_distance(Kawa, Kava) <= SearchTolerance
          /\ result.status = "returned"
          /\ result.value # <<>>
          /\ result.value[1] = <<0, DoubleDiv(MatchScore(12), 1 * 1)>>


\* What search_bktree leaves for the last query when its find workers
\* complete in the given order.
OutcomeInOrder(order) ==
    find_relevant_documents(loaded, sym_spell, word_documents,
                            QueryWords(result.query, stop_words), result.k,
                            result.score_func, result.n, order)

SameOutcome(out) ==
    /\ out.status = result.status
    /\ out.value = result.value
    /\ Elems(out.document_scores) = Elems(result.document_scores)

\* C15: for the index, query, k and policy of a search on the BK-tree
\* path, every order in which the find workers complete gives the list
\* returned and the score of every document that the search gave.
C15_CompletionOrderIndependent ==
    (result.called /\ result.L <= SymSpellThreshold) =>
       \A order \in CompletionOrders(result.L) :
          SameOutcome(OutcomeInOrder(order))

====
